---- MODULE Spec2Model ----
(***************************************************************************)
(* Model of scripts/oc-http-server.py: the AwakeableHandler that resolves  *)
(* an awakeable over HTTP against the sqlite journal database.             *)
(*                                                                         *)
(* Every request is one call of do_POST.  Calls run concurrently (several  *)
(* server processes share DB_PATH); a call is split at its store           *)
(* operations: the SELECT (own connection), the two UPDATEs and the commit *)
(* (second connection, one transaction), and the INSERT+commit of          *)
(* _log_event (third connection).  sqlite admits one writer at a time: the *)
(* first UPDATE takes the write lock, commit or rollback releases it.      *)
(* What a call does between two store operations touches only its own      *)
(* locals and its own socket, and is part of the step of the store         *)
(* operation before it.                                                    *)
(***************************************************************************)
EXTENDS Integers, Sequences, FiniteSets, TLC

\* ---------------------------------------------------------------- bounds
NumRequests == 2
MaxClock == 1

Requests == 1..NumRequests

\* ------------------------------------------------------- request inputs
\* A path is a sequence of tokens: "/" or a segment without slashes.
Slash == "/"

IdSegments == {"aw1", "aw2", "nope"}

DocumentedPath(id) == <<Slash, "awakeables", Slash, id, Slash, "resolve">>

ExtendedPath(id) == <<Slash, "awakeables", Slash, id, Slash, "resolve", Slash, "x">>

EmptyIdPath == <<Slash, "awakeables", Slash, Slash, "resolve", Slash, "x">>

HealthPath == <<Slash, "health">>

Paths ==
  {DocumentedPath("aw1"), EmptyIdPath, HealthPath}
    \cup {ExtendedPath(id) : id \in IdSegments}

\* A body is a sequence of bytes: the empty body, 49 is the document 1, 123
\* is the malformed text {, 255 is a byte that no UTF-8 text contains.
Bodies == {<< >>, <<49>>, <<123>>, <<255>>}

\* ------------------------------------------------------------ str helpers
RECURSIVE StripLeft(_)
StripLeft(s) ==
  IF s # << >> /\ Head(s) = Slash THEN StripLeft(Tail(s)) ELSE s

RECURSIVE StripRight(_)
StripRight(s) ==
  IF s # << >> /\ s[Len(s)] = Slash
    THEN StripRight(SubSeq(s, 1, Len(s) - 1))
    ELSE s

\* str.strip("/")
Strip(s) == StripRight(StripLeft(s))

\* str.split("/") on a stripped token sequence: every "/" ends a part, two
\* adjacent "/" enclose the empty part "", the empty string splits to [""].
RECURSIVE SplitFrom(_, _)
SplitFrom(s, cur) ==
  IF s = << >> THEN <<cur>>
  ELSE IF Head(s) = Slash THEN <<cur>> \o SplitFrom(Tail(s), "")
  ELSE SplitFrom(Tail(s), Head(s))

Split(s) == SplitFrom(s, "")

PathParts(path) == Split(Strip(path))

\* do_POST's route test (lines 47-51)
IsResolveRoute(path_parts) ==
  /\ Len(path_parts) = 4
  /\ path_parts[1] = "awakeables"
  /\ path_parts[3] = "resolve"

\* ----------------------------------------------------------- json helpers
\* Python values that the bodies above can denote.
EmptyDict == [t |-> "dict", v |-> 0]

PyInt(n) == [t |-> "int", v |-> n]

NoValue == [t |-> "none", v |-> 0]

IsDigit(b) == b >= 48 /\ b <= 57

\* bytes.decode("utf-8"): ASCII bytes decode to themselves; the bytes
\* 248..255 occur in no UTF-8 encoding and raise UnicodeDecodeError.
DecodeFails(body) == \E i \in 1..Len(body) : body[i] >= 248

RECURSIVE DigitsValue(_)
DigitsValue(s) ==
  IF s = << >> THEN 0
  ELSE 10 * DigitsValue(SubSeq(s, 1, Len(s) - 1)) + (s[Len(s)] - 48)

\* json.loads on the decoded text: {} and decimal integers without a
\* leading zero are documents, anything else raises JSONDecodeError.
IsJsonInt(s) ==
  /\ Len(s) >= 1
  /\ \A i \in 1..Len(s) : IsDigit(s[i])
  /\ (Len(s) > 1 => s[1] # 48)

IsJsonText(s) == s = <<123, 125>> \/ IsJsonInt(s)

JsonLoads(s) == IF s = <<123, 125>> THEN EmptyDict ELSE PyInt(DigitsValue(s))

RECURSIVE IntDigits(_)
IntDigits(n) ==
  IF n < 10 THEN <<48 + n>> ELSE IntDigits(n \div 10) \o <<48 + (n % 10)>>

\* json.dumps (line 98)
JsonDumps(value) ==
  IF value.t = "dict" THEN <<123, 125>> ELSE IntDigits(value.v)

\* Outcome of lines 60-68: the payload, or the exception that is raised.
ParseBody(body) ==
  IF Len(body) = 0 THEN [exc |-> "none", payload |-> EmptyDict]
  ELSE IF DecodeFails(body) THEN [exc |-> "UnicodeDecodeError", payload |-> NoValue]
  ELSE IF ~IsJsonText(body) THEN [exc |-> "JSONDecodeError", payload |-> NoValue]
  ELSE [exc |-> "none", payload |-> JsonLoads(body)]

\* ------------------------------------------------------------ the store
AwakeableIds == {"aw1", "aw2"}

Job == "job7"

TaskKeys == {<<Job, "wait">>, <<Job, "other">>}

\* SQL NULL in a column that otherwise holds a text or a time.
Null == <<-1>>

AwakeableRow(job_id, task_name, status, payload, resolved_at) ==
  [job_id |-> job_id, task_name |-> task_name, status |-> status,
   payload |-> payload, resolved_at |-> resolved_at]

PendingRow(task_name) == AwakeableRow(Job, task_name, "PENDING", Null, Null)

\* A row resolved before the run started, with the payload {} at time 0.
ResolvedRow(task_name) == AwakeableRow(Job, task_name, "RESOLVED", <<123, 125>>, <<0>>)

\* The databases a run may start from: aw1 is PENDING and owned by the task
\* wait; aw2 is PENDING and owned by either task, or already RESOLVED; the
\* tasks are both suspended, or have left suspension by another path.
InitialAwakeables ==
  {[id \in AwakeableIds |-> IF id = "aw1" THEN PendingRow("wait") ELSE row] :
     row \in {PendingRow("wait"), PendingRow("other"), ResolvedRow("other")}}

TaskTable(wait, other) ==
  [t \in TaskKeys |-> IF t = <<Job, "wait">> THEN wait ELSE other]

InitialTasks == {TaskTable("suspended", "suspended"), TaskTable("completed", "running")}

\* ----------------------------------------------------------------- state
VARIABLES
  awakeables,    \* table awakeables: id -> row (committed)
  tasks,         \* table tasks: <<job_id, name>> -> status (committed)
  events,        \* table events, in insertion order (committed)
  writer,        \* the request whose connection holds sqlite's write lock, or 0
  clock,         \* datetime('now')
  pc,            \* where each request's handler stands
  path,          \* self.path of each request
  body,          \* the bytes each request's handler read from rfile
  awakeable_id,  \* local awakeable_id
  payload,       \* local payload
  result,        \* local job_id, task_name, status (the SELECTed row)
  txn,           \* the uncommitted view of the connection opened at line 101
  responses,     \* the responses each request has been sent, in order
  stderr,        \* the requests that printed "Error logging event"
  commitOrder,   \* history: the requests in the order line 115 committed
  appendOrder    \* history: the requests in the order line 149 committed

vars ==
  <<awakeables, tasks, events, writer, clock, pc, path, body, awakeable_id,
    payload, result, txn, responses, stderr, commitOrder, appendOrder>>

store == <<awakeables, tasks, events>>

NoPath == << >>

NoBody == <<-1>>

NoResult == [job_id |-> "", task_name |-> "", status |-> ""]

NoTxn == [open |-> FALSE, awakeables |-> << >>, tasks |-> << >>]

Init ==
  /\ awakeables \in InitialAwakeables
  /\ tasks \in InitialTasks
  /\ events = << >>
  /\ writer = 0
  /\ clock = 0
  /\ pc = [r \in Requests |-> "idle"]
  /\ path = [r \in Requests |-> NoPath]
  /\ body = [r \in Requests |-> NoBody]
  /\ awakeable_id = [r \in Requests |-> ""]
  /\ payload = [r \in Requests |-> NoValue]
  /\ result = [r \in Requests |-> NoResult]
  /\ txn = [r \in Requests |-> NoTxn]
  /\ responses = [r \in Requests |-> << >>]
  /\ stderr = {}
  /\ commitOrder = << >>
  /\ appendOrder = << >>

\* ------------------------------------------------------------- responses
Response(code, error, echoed) == [code |-> code, error |-> error, payload |-> echoed]

\* _send_error (lines 25-26)
SendError(r, message, status_code) ==
  /\ responses' = [responses EXCEPT ![r] = Append(@, Response(status_code, message, NoValue))]
  /\ pc' = [pc EXCEPT ![r] = "done"]

\* ---------------------------------------------------------------- do_POST
\* lines 42-55
do_POST(r) ==
  /\ pc[r] = "idle"
  /\ \E p \in Paths :
       LET path_parts == PathParts(p) IN
         /\ path' = [path EXCEPT ![r] = p]
         /\ IF IsResolveRoute(path_parts)
              THEN /\ awakeable_id' = [awakeable_id EXCEPT ![r] = path_parts[2]]
                   /\ pc' = [pc EXCEPT ![r] = "read_body"]
                   /\ UNCHANGED responses
              ELSE /\ SendError(r, <<"Not found">>, 404)
                   /\ UNCHANGED awakeable_id
  /\ UNCHANGED <<store, writer, clock, body, payload, result, txn, stderr,
                 commitOrder, appendOrder>>

\* Mutant of ReadBody: the return after "Invalid JSON payload" is missing,
\* so the handler goes on to the store after it has answered 400.
ReadBodyMissingReturn(r) ==
  /\ pc[r] = "read_body"
  /\ \E b \in Bodies :
       LET parsed == ParseBody(b) IN
         /\ body' = [body EXCEPT ![r] = b]
         /\ IF parsed.exc = "UnicodeDecodeError"
              THEN /\ SendError(r, <<"Internal server error", parsed.exc>>, 500)
                   /\ UNCHANGED payload
            ELSE IF parsed.exc = "JSONDecodeError"
              THEN /\ responses' = [responses EXCEPT ![r] =
                        Append(@, Response(400, <<"Invalid JSON payload">>, NoValue))]
                   /\ pc' = [pc EXCEPT ![r] = "select"]
                   /\ UNCHANGED payload
            ELSE IF awakeable_id[r] = ""
              THEN /\ SendError(r, <<"Invalid awakeable ID">>, 400)
                   /\ payload' = [payload EXCEPT ![r] = parsed.payload]
            ELSE /\ payload' = [payload EXCEPT ![r] = parsed.payload]
                 /\ pc' = [pc EXCEPT ![r] = "select"]
                 /\ UNCHANGED responses
  /\ UNCHANGED <<store, writer, clock, path, awakeable_id, result, txn, stderr,
                 commitOrder, appendOrder>>

\* lines 58-73: read and parse the body, then validate the id
ReadBody(r) ==
  /\ pc[r] = "read_body"
  /\ \E b \in Bodies :
       LET parsed == ParseBody(b) IN
         /\ body' = [body EXCEPT ![r] = b]
         /\ IF parsed.exc = "UnicodeDecodeError"
              THEN /\ SendError(r, <<"Internal server error", parsed.exc>>, 500)
                   /\ UNCHANGED payload
            ELSE IF parsed.exc = "JSONDecodeError"
              THEN /\ SendError(r, <<"Invalid JSON payload">>, 400)
                   /\ UNCHANGED payload
            ELSE IF awakeable_id[r] = ""
              THEN /\ SendError(r, <<"Invalid awakeable ID">>, 400)
                   /\ payload' = [payload EXCEPT ![r] = parsed.payload]
            ELSE /\ payload' = [payload EXCEPT ![r] = parsed.payload]
                 /\ pc' = [pc EXCEPT ![r] = "select"]
                 /\ UNCHANGED responses
  /\ UNCHANGED <<store, writer, clock, path, awakeable_id, result, txn, stderr,
                 commitOrder, appendOrder>>

\* Mutant of SelectAwakeable: the row is marked RESOLVED before its status
\* is looked at, so a 409 has already written.
SelectAwakeableWritesFirst(r) ==
  /\ pc[r] = "select"
  /\ awakeable_id[r] \in DOMAIN awakeables
  /\ awakeables[awakeable_id[r]].status # "PENDING"
  /\ awakeables' = [awakeables EXCEPT ![awakeable_id[r]].payload = <<49>>]
  /\ result' = [result EXCEPT ![r] =
       [job_id |-> awakeables[awakeable_id[r]].job_id,
        task_name |-> awakeables[awakeable_id[r]].task_name,
        status |-> awakeables[awakeable_id[r]].status]]
  /\ SendError(r, <<"Awakeable not pending", awakeables[awakeable_id[r]].status,
                    awakeable_id[r]>>, 409)
  /\ UNCHANGED <<tasks, events, writer, clock, path, body, awakeable_id, payload,
                 txn, stderr, commitOrder, appendOrder>>

\* Mutant of SelectAwakeable: the row is unpacked before it is tested for
\* None, so an unknown id raises TypeError and is answered 500.
SelectAwakeableUnpacksFirst(r) ==
  /\ pc[r] = "select"
  /\ IF awakeable_id[r] \notin DOMAIN awakeables
       THEN /\ SendError(r, <<"Internal server error", "TypeError">>, 500)
            /\ UNCHANGED result
       ELSE LET row == awakeables[awakeable_id[r]] IN
         /\ result' = [result EXCEPT ![r] =
              [job_id |-> row.job_id, task_name |-> row.task_name, status |-> row.status]]
         /\ IF row.status # "PENDING"
              THEN SendError(r, <<"Awakeable not pending", row.status, awakeable_id[r]>>, 409)
              ELSE /\ pc' = [pc EXCEPT ![r] = "update_awakeable"]
                   /\ UNCHANGED responses
  /\ UNCHANGED <<store, writer, clock, path, body, awakeable_id, payload, txn,
                 stderr, commitOrder, appendOrder>>

\* lines 75-95: SELECT on a connection of its own, then the two checks
SelectAwakeable(r) ==
  /\ pc[r] = "select"
  /\ IF awakeable_id[r] \notin DOMAIN awakeables
       THEN /\ SendError(r, <<"Awakeable not found", awakeable_id[r]>>, 404)
            /\ UNCHANGED result
       ELSE LET row == awakeables[awakeable_id[r]] IN
         /\ result' = [result EXCEPT ![r] =
              [job_id |-> row.job_id, task_name |-> row.task_name, status |-> row.status]]
         /\ IF row.status # "PENDING"
              THEN SendError(r, <<"Awakeable not pending", row.status, awakeable_id[r]>>, 409)
              ELSE /\ pc' = [pc EXCEPT ![r] = "update_awakeable"]
                   /\ UNCHANGED responses
  /\ UNCHANGED <<store, writer, clock, path, body, awakeable_id, payload, txn,
                 stderr, commitOrder, appendOrder>>

\* Mutant of ResolveRow: the SET clause leaves resolved_at out.
ResolveRowNoTimestamp(row, payload_json, now) ==
  [row EXCEPT !.status = "RESOLVED", !.payload = payload_json]

\* The SET clause of lines 104-105 applied to one row.
ResolveRow(row, payload_json, now) ==
  [row EXCEPT !.status = "RESOLVED", !.payload = payload_json, !.resolved_at = <<now>>]

\* Mutant of UpdateAwakeables: the two parameters are bound in the wrong
\* order, so the WHERE clause compares id with the payload and matches no row.
UpdateAwakeablesNoMatch(table, id, payload_json, now) ==
  [a \in DOMAIN table |->
     IF a \in {} THEN ResolveRow(table[a], id, now) ELSE table[a]]

\* Mutant of UpdateAwakeables: the WHERE clause is missing, every row is
\* resolved.
UpdateAwakeablesAllRows(table, id, payload_json, now) ==
  [a \in DOMAIN table |-> ResolveRow(table[a], payload_json, now)]

\* UPDATE awakeables ... WHERE id = ? (lines 103-108) on a table
UpdateAwakeables(table, id, payload_json, now) ==
  [a \in DOMAIN table |->
     IF a = id THEN ResolveRow(table[a], payload_json, now) ELSE table[a]]

\* Mutant of UpdateTasks: the WHERE clause forgets the task name.
UpdateTasksOfJob(table, job_id, task_name) ==
  [t \in DOMAIN table |-> IF t[1] = job_id THEN "pending" ELSE table[t]]

\* UPDATE tasks SET status = 'pending' WHERE job_id = ? AND name = ? (111-114)
UpdateTasks(table, job_id, task_name) ==
  [t \in DOMAIN table |->
     IF t[1] = job_id /\ t[2] = task_name THEN "pending" ELSE table[t]]

\* Mutant of UpdateAwakeable: the connection is in autocommit mode, so the
\* first UPDATE is visible before the second one has run.
UpdateAwakeableAutocommit(r) ==
  /\ pc[r] = "update_awakeable"
  /\ writer = 0
  /\ \E now \in clock..MaxClock :
       /\ clock' = now
       /\ awakeables' = UpdateAwakeables(awakeables, awakeable_id[r],
                                         JsonDumps(payload[r]), now)
       /\ txn' = [txn EXCEPT ![r] =
            [open |-> TRUE, awakeables |-> awakeables', tasks |-> tasks]]
  /\ writer' = r
  /\ pc' = [pc EXCEPT ![r] = "update_task"]
  /\ UNCHANGED <<tasks, events, path, body, awakeable_id, payload, result,
                 responses, stderr, commitOrder, appendOrder>>

\* lines 97-108: the second connection's first statement opens a
\* transaction and takes the write lock; the row changes in its view only.
UpdateAwakeable(r) ==
  /\ pc[r] = "update_awakeable"
  /\ writer = 0
  /\ \E now \in clock..MaxClock :
       /\ clock' = now
       /\ txn' = [txn EXCEPT ![r] =
            [open |-> TRUE,
             awakeables |-> UpdateAwakeables(awakeables, awakeable_id[r],
                                             JsonDumps(payload[r]), now),
             tasks |-> tasks]]
  /\ writer' = r
  /\ pc' = [pc EXCEPT ![r] = "update_task"]
  /\ UNCHANGED <<store, path, body, awakeable_id, payload, result, responses,
                 stderr, commitOrder, appendOrder>>

\* lines 110-114: the second statement of the same transaction
UpdateTask(r) ==
  /\ pc[r] = "update_task"
  /\ txn' = [txn EXCEPT ![r].tasks =
       UpdateTasks(@, result[r].job_id, result[r].task_name)]
  /\ pc' = [pc EXCEPT ![r] = "commit"]
  /\ UNCHANGED <<store, writer, clock, path, body, awakeable_id, payload, result,
                 responses, stderr, commitOrder, appendOrder>>

\* Mutant of Commit: the awakeable was updated on another connection that
\* is never committed; only the task's wake becomes visible.
CommitTasksOnly(r) ==
  /\ pc[r] = "commit"
  /\ tasks' = txn[r].tasks
  /\ txn' = [txn EXCEPT ![r] = NoTxn]
  /\ writer' = 0
  /\ commitOrder' = Append(commitOrder, r)
  /\ pc' = [pc EXCEPT ![r] = "log_event"]
  /\ UNCHANGED <<awakeables, events, clock, path, body, awakeable_id, payload,
                 result, responses, stderr, appendOrder>>

\* lines 115-116: both statements become visible at once, the lock is freed
Commit(r) ==
  /\ pc[r] = "commit"
  /\ awakeables' = txn[r].awakeables
  /\ tasks' = txn[r].tasks
  /\ txn' = [txn EXCEPT ![r] = NoTxn]
  /\ writer' = 0
  /\ commitOrder' = Append(commitOrder, r)
  /\ pc' = [pc EXCEPT ![r] = "log_event"]
  /\ UNCHANGED <<events, clock, path, body, awakeable_id, payload, result,
                 responses, stderr, appendOrder>>

\* Mutant of StorageFault: the except branch compensates by putting the
\* awakeable back to PENDING.
StorageFaultResetsRow(r) ==
  /\ pc[r] \in {"select", "update_awakeable", "update_task", "commit"}
  /\ txn' = [txn EXCEPT ![r] = NoTxn]
  /\ writer' = IF writer = r THEN 0 ELSE writer
  /\ awakeables' =
       [a \in DOMAIN awakeables |->
          IF a = awakeable_id[r]
            THEN [awakeables[a] EXCEPT !.status = "PENDING"]
            ELSE awakeables[a]]
  /\ SendError(r, <<"Internal server error", "OperationalError">>, 500)
  /\ UNCHANGED <<tasks, events, clock, path, body, awakeable_id, payload, result,
                 stderr, commitOrder, appendOrder>>

\* Mutant of StorageFault: the connection is committed on the way out (a
\* finally: conn.commit()), so what the transaction had done becomes visible.
StorageFaultKeepsWrites(r) ==
  /\ pc[r] \in {"select", "update_awakeable", "update_task", "commit"}
  /\ awakeables' = IF txn[r].open THEN txn[r].awakeables ELSE awakeables
  /\ tasks' = IF txn[r].open THEN txn[r].tasks ELSE tasks
  /\ txn' = [txn EXCEPT ![r] = NoTxn]
  /\ writer' = IF writer = r THEN 0 ELSE writer
  /\ SendError(r, <<"Internal server error", "OperationalError">>, 500)
  /\ UNCHANGED <<events, clock, path, body, awakeable_id, payload, result,
                 stderr, commitOrder, appendOrder>>

\* lines 136-138: sqlite raises in connect, execute or commit (an I/O
\* error, or "database is locked" after the busy timeout); the open
\* transaction is rolled back when its connection is dropped.
StorageFault(r) ==
  /\ pc[r] \in {"select", "update_awakeable", "update_task", "commit"}
  /\ txn' = [txn EXCEPT ![r] = NoTxn]
  /\ writer' = IF writer = r THEN 0 ELSE writer
  /\ SendError(r, <<"Internal server error", "OperationalError">>, 500)
  /\ UNCHANGED <<store, clock, path, body, awakeable_id, payload, result,
                 stderr, commitOrder, appendOrder>>

\* Mutant of StateChangeEvent: old_state and new_state are swapped.
StateChangeEventSwapped(job_id, task_name, id) ==
  [job_id |-> job_id, task_name |-> task_name, event_type |-> "task.StateChange",
   old_state |-> "pending", new_state |-> "suspended",
   payload |-> <<"awakeable", id, "resolved">>]

\* The row _log_event is called with at lines 119-126.
StateChangeEvent(job_id, task_name, id) ==
  [job_id |-> job_id, task_name |-> task_name, event_type |-> "task.StateChange",
   old_state |-> "suspended", new_state |-> "pending",
   payload |-> <<"awakeable", id, "resolved">>]

\* INSERT INTO events (lines 144-148) on the table
InsertEvent(table, event) == Append(table, event)

\* _send_success (lines 28-32) as called at lines 128-134
SendSuccess(r) ==
  /\ responses' = [responses EXCEPT ![r] = Append(@, Response(200, << >>, payload[r]))]
  /\ pc' = [pc EXCEPT ![r] = "done"]

\* lines 118-134 and 140-150: INSERT and commit on a third connection, then
\* the 200 response
LogEvent(r) ==
  /\ pc[r] = "log_event"
  /\ writer = 0
  /\ events' = InsertEvent(events,
       StateChangeEvent(result[r].job_id, result[r].task_name, awakeable_id[r]))
  /\ appendOrder' = Append(appendOrder, r)
  /\ SendSuccess(r)
  /\ UNCHANGED <<awakeables, tasks, writer, clock, path, body, awakeable_id,
                 payload, result, txn, stderr, commitOrder>>

\* Mutant of LogEventFails: _log_event lets the exception out, and the
\* handler's outer except answers 500.
LogEventFailsPropagates(r) ==
  /\ pc[r] = "log_event"
  /\ stderr' = stderr \cup {r}
  /\ SendError(r, <<"Internal server error", "OperationalError">>, 500)
  /\ UNCHANGED <<store, writer, clock, path, body, awakeable_id, payload, result,
                 txn, commitOrder, appendOrder>>

\* lines 151-152 and 128-134: the INSERT or its commit raises; _log_event
\* prints the error and returns normally, and the 200 response follows
LogEventFails(r) ==
  /\ pc[r] = "log_event"
  /\ stderr' = stderr \cup {r}
  /\ SendSuccess(r)
  /\ UNCHANGED <<store, writer, clock, path, body, awakeable_id, payload, result,
                 txn, commitOrder, appendOrder>>

\* One step of _handle_resolve_awakeable for request r (lines 57-138).
HandlerStep(r) ==
  \/ ReadBody(r)
  \/ SelectAwakeable(r)
  \/ UpdateAwakeable(r)
  \/ UpdateTask(r)
  \/ Commit(r)
  \/ StorageFault(r)
  \/ LogEvent(r)
  \/ LogEventFails(r)

Next == \E r \in Requests : do_POST(r) \/ HandlerStep(r)

Spec == Init /\ [][Next]_vars

\* A handler that has been called keeps running: each of its statements
\* returns or raises, and a statement that waits for sqlite's write lock
\* raises "database is locked" when the busy timeout runs out.
\* The liveness runs start from one store: aw1 is pending, aw2 is resolved
\* already, both tasks are suspended.
InitFair ==
  /\ Init
  /\ awakeables["aw2"] = ResolvedRow("other")
  /\ tasks = TaskTable("suspended", "suspended")

FairSpec == InitFair /\ [][Next]_vars /\ \A r \in Requests : WF_vars(HandlerStep(r))

\* ------------------------------------------------------------ properties
Range(seq) == {seq[i] : i \in 1..Len(seq)}

Position(seq, x) == CHOOSE i \in 1..Len(seq) : seq[i] = x

Answered(r, code) == \E i \in 1..Len(responses[r]) : responses[r][i].code = code

Owner(a) == <<awakeables[a].job_id, awakeables[a].task_name>>

AllDone == \A r \in Requests : pc[r] = "done"

DocumentedPaths == {DocumentedPath(id) : id \in IdSegments}

\* C1 (as claimed): of the resolve calls on one awakeable id, at most one
\* is answered 200, however their store operations interleave.
SingleResolution ==
  \A a \in AwakeableIds :
    Cardinality({r \in Requests : awakeable_id[r] = a /\ Answered(r, 200)}) <= 1

\* C2: every step either leaves an awakeable's status and its task alone,
\* or makes both changes at once: an awakeable that turns RESOLVED has its
\* owning task pending in the same state, and a task's status changes only
\* to pending and only in the step in which an awakeable it owns turns
\* RESOLVED; the steps of a call that is interrupted by a storage fault
\* change neither.
AtomicResolveAndWake ==
  [][/\ \A a \in AwakeableIds :
          (awakeables[a].status = "PENDING" /\ awakeables'[a].status = "RESOLVED")
            => (Owner(a) \in DOMAIN tasks => tasks'[Owner(a)] = "pending")
     /\ \A t \in TaskKeys :
          tasks'[t] # tasks[t]
            => /\ tasks'[t] = "pending"
               /\ \E a \in AwakeableIds :
                    /\ Owner(a) = t
                    /\ awakeables[a].status = "PENDING"
                    /\ awakeables'[a].status = "RESOLVED"
     /\ \A r \in Requests :
          (pc'[r] # pc[r] /\ Answered(r, 500)') => UNCHANGED <<awakeables, tasks>>
    ]_vars

\* C2 witness: one call was interrupted by a storage fault after its SELECT
\* had seen PENDING and left the awakeable PENDING, and another call
\* committed: its awakeable is RESOLVED and the owning task pending.
AtomicResolveAndWakeWitness ==
  \E r1, r2 \in Requests :
    /\ Answered(r1, 500)
    /\ result[r1].status = "PENDING"
    /\ awakeables[awakeable_id[r1]].status = "PENDING"
    /\ Answered(r2, 200)
    /\ awakeables[awakeable_id[r2]].status = "RESOLVED"
    /\ tasks[Owner(awakeable_id[r2])] = "pending"

\* C3 (as claimed): once an awakeable is RESOLVED its row, payload and
\* resolved_at included, is never written again.
ResolvedRowNeverRewritten ==
  [][\A a \in AwakeableIds :
       awakeables[a].status = "RESOLVED" => awakeables'[a] = awakeables[a]]_vars

Appends(r) == Cardinality({i \in 1..Len(appendOrder) : appendOrder[i] = r})

Successes == {r \in Requests : Answered(r, 200)}

\* C4 (as claimed): every call answered 200 has appended exactly one event,
\* and once all calls have returned the log holds as many events as there
\* were successful resolves.
AuditComplete ==
  /\ \A r \in Successes : Appends(r) = 1
  /\ AllDone => Len(events) = Cardinality(Successes)

\* C4 (amended): every call answered 200 has appended exactly one event,
\* unless its append failed and was only printed, and then it has appended
\* none; every event in the log is a task.StateChange from suspended to
\* pending carrying the job_id and task_name of the awakeable that the
\* appending call resolved; once all calls have returned, the log holds as
\* many events as there were successful resolves whose append did not fail.
AuditCompleteUnlessAppendFailed ==
  /\ \A r \in Successes : Appends(r) = IF r \in stderr THEN 0 ELSE 1
  /\ Len(events) = Len(appendOrder)
  /\ \A i \in 1..Len(events) :
       LET a == awakeable_id[appendOrder[i]] IN
         /\ events[i].event_type = "task.StateChange"
         /\ events[i].old_state = "suspended"
         /\ events[i].new_state = "pending"
         /\ events[i].job_id = awakeables[a].job_id
         /\ events[i].task_name = awakeables[a].task_name
         /\ awakeables[a].status = "RESOLVED"
  /\ AllDone => Len(events) = Cardinality(Successes \ stderr)

\* C4 witness: one successful call appended its event and another
\* successful call's append failed.
AuditCompleteWitness ==
  \E r1, r2 \in Successes :
    /\ Appends(r1) = 1
    /\ r2 \in stderr
    /\ Len(events) = 1

\* C5 (as claimed): a POST of /awakeables/{id}/resolve is dispatched to the
\* resolve operation, so it is never answered with the generic 404.
DocumentedRouteDispatched ==
  \A r \in Requests :
    path[r] \in DocumentedPaths
      => \A i \in 1..Len(responses[r]) :
           responses[r][i] # Response(404, <<"Not found">>, NoValue)

\* C6 (as claimed): the status of a task that is not suspended is never
\* changed.
WakeOnlySuspended ==
  [][\A t \in TaskKeys : tasks[t] # "suspended" => tasks'[t] = tasks[t]]_vars

\* C7: a step of a call on awakeable A changes no awakeable row other than
\* A's and no task other than the one A's (job_id, task_name) names.
CorrectWakeTarget ==
  [][\A r \in Requests :
       pc'[r] # pc[r]
         => LET A == awakeable_id'[r] IN
              /\ \A a \in AwakeableIds \ {A} : awakeables'[a] = awakeables[a]
              /\ \A t \in TaskKeys :
                   (A \notin AwakeableIds \/ t # Owner(A)) => tasks'[t] = tasks[t]
    ]_vars

\* C7 witness: aw1 was resolved and its task wait woken while aw2, owned by
\* the other task, is still PENDING and that task still suspended.
CorrectWakeTargetWitness ==
  \E r \in Successes :
    /\ awakeable_id[r] = "aw1"
    /\ awakeables["aw1"].status = "RESOLVED"
    /\ tasks[<<Job, "wait">>] = "pending"
    /\ awakeables["aw2"] = PendingRow("other")
    /\ tasks[<<Job, "other">>] = "suspended"

\* C8: the step in which a call is answered 404 or 409 changes no awakeable,
\* task or event, and that call has committed no update and appended no
\* event before.
FailedResolveMutatesNothing ==
  [][\A r \in Requests :
       (pc'[r] # pc[r] /\ (Answered(r, 404)' \/ Answered(r, 409)'))
         => /\ UNCHANGED store
            /\ r \notin Range(commitOrder)
            /\ r \notin Range(appendOrder)
            /\ ~txn[r].open
    ]_vars

\* C8 witness: a call on an unknown id was answered 404 and a call on a
\* RESOLVED awakeable was answered 409.
FailedResolveWitness ==
  \E r1, r2 \in Requests :
    /\ responses[r1] = <<Response(404, <<"Awakeable not found", "nope">>, NoValue)>>
    /\ responses[r2] = <<Response(409, <<"Awakeable not pending", "RESOLVED", "aw2">>, NoValue)>>

IsJsonDocument(b) == Len(b) = 0 \/ (~DecodeFails(b) /\ IsJsonText(b))

\* C9 (as claimed): a call whose body is not valid JSON, or whose id is
\* empty, is answered 400 and has not touched the store.
ValidationPrecedesStore ==
  \A r \in Requests :
    (pc[r] = "done" /\ body[r] # NoBody
       /\ (~IsJsonDocument(body[r]) \/ awakeable_id[r] = ""))
      => /\ Answered(r, 400)
         /\ result[r] = NoResult
         /\ r \notin Range(commitOrder) \cup Range(appendOrder)

\* C10 (as claimed): the events of two calls appear in the log in the order
\* in which the calls' awakeable and task updates committed.
EventOrderMatchesCommitOrder ==
  \A i, j \in 1..Len(appendOrder) :
    i < j => Position(commitOrder, appendOrder[i]) < Position(commitOrder, appendOrder[j])

\* Every PENDING awakeable's (job_id, task_name) names a suspended task.
SuspensionInvariant ==
  \A a \in AwakeableIds :
    awakeables[a].status = "PENDING" => tasks[Owner(a)] = "suspended"

\* The runs that start from a database in which the suspension invariant
\* holds.
InitSuspended == Init /\ SuspensionInvariant

SpecSuspended == InitSuspended /\ [][Next]_vars

\* C11 (as claimed): started where every PENDING awakeable's task is
\* suspended, every state reached by resolve calls has every PENDING
\* awakeable's task suspended, also when two PENDING awakeables name the
\* same task and one of them is resolved.
SuspensionPreserved == SuspensionInvariant

\* C11 (amended): started where every PENDING awakeable's task is suspended,
\* in every state reached by resolve calls a PENDING awakeable's task is
\* suspended unless another awakeable of the same task is RESOLVED.
SuspensionPreservedUnlessShared ==
  \A a \in AwakeableIds :
    awakeables[a].status = "PENDING"
      => \/ tasks[Owner(a)] = "suspended"
         \/ \E b \in AwakeableIds \ {a} :
              Owner(b) = Owner(a) /\ awakeables[b].status = "RESOLVED"

\* C11 witness: aw1 was resolved and its task woken, while aw2 is still
\* PENDING and its own task still suspended.
SuspensionPreservedWitness ==
  /\ awakeables["aw1"].status = "RESOLVED"
  /\ tasks[Owner("aw1")] = "pending"
  /\ awakeables["aw2"].status = "PENDING"
  /\ Owner("aw2") # Owner("aw1")
  /\ tasks[Owner("aw2")] = "suspended"
  /\ \E r \in Successes : awakeable_id[r] = "aw1"

\* The call whose commit wrote awakeable a last.
LastCommitter(a) ==
  LET commits == {i \in 1..Len(commitOrder) : awakeable_id[commitOrder[i]] = a}
  IN  commitOrder[CHOOSE i \in commits : \A j \in commits : j <= i]

\* C12: a call whose event append failed had committed its updates, is
\* answered 200 with its payload echoed and nothing else, and its awakeable
\* is RESOLVED with the payload that was committed last and its task is
\* pending.
EventLogFailureKeepsResolve ==
  \A r \in stderr :
    /\ responses[r] = <<Response(200, << >>, payload[r])>>
    /\ r \in Range(commitOrder)
    /\ awakeables[awakeable_id[r]].status = "RESOLVED"
    /\ awakeables[awakeable_id[r]].payload =
         JsonDumps(payload[LastCommitter(awakeable_id[r])])
    /\ tasks[Owner(awakeable_id[r])] = "pending"

\* C12 witness: the only call that ran lost its event and was answered 200;
\* the log is empty, the awakeable RESOLVED and the task pending.
EventLogFailureWitness ==
  \E r \in stderr :
    /\ Answered(r, 200)
    /\ events = << >>
    /\ commitOrder = <<r>>
    /\ awakeables[awakeable_id[r]].status = "RESOLVED"
    /\ tasks[Owner(awakeable_id[r])] = "pending"

\* C13: in every state a RESOLVED awakeable has a payload and a resolved_at,
\* and a PENDING one has neither: the three columns change in one write.
ResolvedHasPayloadAndTime ==
  \A a \in AwakeableIds :
    /\ awakeables[a].status = "RESOLVED"
         => awakeables[a].payload # Null /\ awakeables[a].resolved_at # Null
    /\ awakeables[a].status = "PENDING"
         => awakeables[a].payload = Null /\ awakeables[a].resolved_at = Null

\* C13 witness: a call resolved aw1 with the payload 1 at time 1.
ResolvedHasPayloadAndTimeWitness ==
  /\ awakeables["aw1"] = AwakeableRow(Job, "wait", "RESOLVED", <<49>>, <<1>>)
  /\ \E r \in Range(commitOrder) : awakeable_id[r] = "aw1"

\* C14: no step deletes or adds an awakeable, and the only change of an
\* awakeable's status in any step is from PENDING to RESOLVED.
StatusMonotonic ==
  [][/\ DOMAIN awakeables' = DOMAIN awakeables
     /\ \A a \in DOMAIN awakeables :
          awakeables'[a].status # awakeables[a].status
            => awakeables[a].status = "PENDING" /\ awakeables'[a].status = "RESOLVED"
    ]_vars

\* C14 witness: two calls committed on aw1 one after the other and aw1 is
\* RESOLVED, as is aw2, which was RESOLVED from the start.
StatusMonotonicWitness ==
  /\ Len(commitOrder) = 2
  /\ \A r \in Range(commitOrder) : awakeable_id[r] = "aw1"
  /\ awakeables["aw1"].status = "RESOLVED"
  /\ awakeables["aw2"].status = "RESOLVED"

\* The runs that start with aw1 and aw2 both PENDING and owned by the two
\* different tasks.
InitDistinct == Init /\ awakeables["aw2"] = PendingRow("other")

SpecDistinct == InitDistinct /\ [][Next]_vars

ReachedStore(r) ==
  /\ body[r] # NoBody
  /\ ParseBody(body[r]).exc = "none"
  /\ awakeable_id[r] # ""

StorageFaultContained ==
  [][\A r \in Requests :
       (pc'[r] # pc[r] /\ Answered(r, 500)')
         => /\ Len(responses'[r]) = 1
            /\ pc'[r] = "done"
            /\ UNCHANGED <<awakeables, tasks>>
            /\ r \notin Range(commitOrder')
            /\ ~txn'[r].open
            /\ writer' # r
    ]_vars

\* C16 witness: a call that had seen its awakeable PENDING was answered 500
\* for a storage fault; nothing was committed and the lock is free.
StorageFaultContainedWitness ==
  \E r \in Requests :
    /\ responses[r] = <<Response(500, <<"Internal server error", "OperationalError">>, NoValue)>>
    /\ result[r].status = "PENDING"
    /\ commitOrder = << >>
    /\ awakeables \in InitialAwakeables
    /\ tasks \in InitialTasks
    /\ writer = 0

StorageFaultResponse ==
  Response(500, <<"Internal server error", "OperationalError">>, NoValue)

\* C17: a call on a non-empty id with a valid body that has returned without
\* a storage fault is answered 404 exactly if no awakeable has its id; else
\* it is answered 409 or 200: 409 only if the stored status is not PENDING,
\* and then the error carries exactly the stored status, and 200 only if the
\* status it read was PENDING.
OutcomeClassification ==
  \A r \in Requests :
    (pc[r] = "done" /\ ReachedStore(r) /\ responses[r] # <<StorageFaultResponse>>)
      => IF awakeable_id[r] \notin DOMAIN awakeables
           THEN responses[r] =
                  <<Response(404, <<"Awakeable not found", awakeable_id[r]>>, NoValue)>>
           ELSE \/ /\ responses[r] =
                        <<Response(409, <<"Awakeable not pending",
                                          awakeables[awakeable_id[r]].status,
                                          awakeable_id[r]>>, NoValue)>>
                   /\ awakeables[awakeable_id[r]].status # "PENDING"
                   /\ result[r].status = awakeables[awakeable_id[r]].status
                \/ /\ responses[r] = <<Response(200, << >>, payload[r])>>
                   /\ result[r].status = "PENDING"

\* C17 witness: one call resolved aw1 and was answered 200, and a later call
\* on aw1 was answered 409 carrying the status RESOLVED.
OutcomeClassificationWitness ==
  \E r1, r2 \in Requests :
    /\ awakeable_id[r1] = "aw1"
    /\ Answered(r1, 200)
    /\ commitOrder = <<r1>>
    /\ responses[r2] =
         <<Response(409, <<"Awakeable not pending", "RESOLVED", "aw1">>, NoValue)>>

\* C18: every task.StateChange event in the log names an awakeable that is
\* RESOLVED and has the event's job_id and task_name; no event names an
\* awakeable that is still PENDING.
EventImpliesResolved ==
  \A i \in 1..Len(events) :
    events[i].event_type = "task.StateChange"
      => \E a \in AwakeableIds :
           /\ events[i].payload = <<"awakeable", a, "resolved">>
           /\ awakeables[a].status = "RESOLVED"
           /\ awakeables[a].job_id = events[i].job_id
           /\ awakeables[a].task_name = events[i].task_name

\* C18 witness: the log holds the event of aw1's resolution while aw2 is
\* still PENDING and has no event.
EventImpliesResolvedWitness ==
  /\ Len(events) = 1
  /\ events[1].payload = <<"awakeable", "aw1", "resolved">>
  /\ awakeables["aw1"].status = "RESOLVED"
  /\ awakeables["aw2"].status = "PENDING"

StatusCodes == {200, 400, 404, 409, 500}

OneResponse ==
  \A r \in Requests :
    /\ Len(responses[r]) <= 1
    /\ pc[r] = "done" <=> Len(responses[r]) = 1
    /\ \A i \in 1..Len(responses[r]) : responses[r][i].code \in StatusCodes

\* C19: a request never has more than one response, it has one exactly when
\* its handler has returned, the status is 200, 400, 404, 409 or 500, and
\* every request that has arrived is eventually answered.
EveryRequestAnswered ==
  /\ []OneResponse
  /\ \A r \in Requests : (pc[r] # "idle") ~> (pc[r] = "done" /\ Len(responses[r]) = 1)

\* C19 witness: all requests have been answered, among them one with 200, one
\* with 409.
EveryRequestAnsweredWitness ==
  /\ AllDone
  /\ OneResponse
  /\ \E r1, r2 \in Requests : Answered(r1, 200) /\ Answered(r2, 409)

====
